---- MODULE Spec2Model ----
(***************************************************************************)
(* Model of the index engine: the rolling feature engine                   *)
(* (rolling_features.py), the weekly rebalance (rebalance.py), the stores  *)
(* and stages of the pipeline (pipeline.py) and the index-level builder    *)
(* (index_level.py).                                                       *)
(*                                                                         *)
(* Tables (pandas DataFrames) are sequences of records, in row order.      *)
(* Real numbers are exact rationals [n |-> numerator, d |-> denominator]   *)
(* with d > 0.  coverage_7d and min_coverage_7d are held in sevenths.      *)
(***************************************************************************)
EXTENDS Integers, Sequences, FiniteSets, TLC

VARIABLES
    snapshots,    \* the snapshot table (snapshots.parquet / the history given to a stage)
    features,     \* the feature table (features.parquet / the features given to a stage)
    membership,   \* the membership table (membership.parquet / prior_membership)
    result,       \* the RebalanceResult of the last rebalance
    index_ts,     \* the table returned by the last build_index_level_series
    call,         \* the last call: its name, its arguments, how it ended
    pc,           \* where the current run of run_pipeline stands
    runs,         \* the number of runs of run_pipeline started
    started       \* the three stores as the current run of run_pipeline found them

vars == <<snapshots, features, membership, result, index_ts, call, pc, runs, started>>

\* ------------------------------------------------------------------ bounds
MaxGames == 3
MaxDate == 2
\* the index-level builder is applied to tables over fewer games and more days
MaxIndexGames == 2
MaxDay == 3
\* the number of runs of run_pipeline a behaviour holds
MaxRuns == 2

Games == 1..MaxGames
Dates == 1..MaxDate
\* edr_raw values of the model's snapshots (edr_raw is clipped at 0 by the estimator)
EdrValues == {0, 3}

\* ------------------------------------------------------- program constants
mean_7d_min_periods == 3
ema_fast == 7
ema_slow == 30

\* ------------------------------------------------------------- arithmetic
Rat(n, d) == [n |-> n, d |-> d]
RatLess(a, b) == a.n * b.d < b.n * a.d
RatEq(a, b) == a.n * b.d = b.n * a.d
RatLeq(a, b) == a.n * b.d <= b.n * a.d

RECURSIVE SeqSum(_)
SeqSum(s) == IF s = <<>> THEN 0 ELSE Head(s) + SeqSum(Tail(s))

RECURSIVE Gcd(_, _)
Gcd(a, b) == IF b = 0 THEN a ELSE Gcd(b, a % b)

Lcm(a, b) == (a * b) \div Gcd(a, b)

RECURSIVE SeqLcm(_)
SeqLcm(s) == IF s = <<>> THEN 1 ELSE Lcm(Head(s), SeqLcm(Tail(s)))

Min(a, b) == IF a <= b THEN a ELSE b
Max(a, b) == IF a >= b THEN a ELSE b

SetMax(S) == CHOOSE x \in S : \A y \in S : y <= x

\* the last k elements of s (all of s when it is shorter)
LastK(s, k) == IF Len(s) <= k THEN s ELSE SubSeq(s, Len(s) - k + 1, Len(s))

\* ------------------------------------------------------------ table sorts
\* DataFrame.sort_values on several columns is a lexsort: stable.
\* The row at position i goes behind every row that sorts before it and every
\* equal row that stood before it.
StableSort(s, Less(_, _)) ==
    LET pos(i) == 1 + Cardinality({j \in 1..Len(s) :
                        Less(s[j], s[i]) \/ (~Less(s[i], s[j]) /\ j < i)})
    IN [k \in 1..Len(s) |-> s[CHOOSE i \in 1..Len(s) : pos(i) = k]]


\* sort_values(by=["universeId", "snapshot_date"])
ByGameDate(a, b) ==
    \/ a.universeId < b.universeId
    \/ a.universeId = b.universeId /\ a.snapshot_date < b.snapshot_date

\* sort_values(by=["snapshot_date", "universeId"])
ByDateGame(a, b) ==
    \/ a.snapshot_date < b.snapshot_date
    \/ a.snapshot_date = b.snapshot_date /\ a.universeId < b.universeId

\* groupby("universeId").tail(1): the last row of every game, in table order
GroupTail(df) ==
    LET keep == SelectSeq([k \in 1..Len(df) |-> k],
                    LAMBDA k : \A j \in (k + 1)..Len(df) :
                                   df[j].universeId # df[k].universeId)
    IN [k \in 1..Len(keep) |-> df[keep[k]]]

\* ------------------------------------------------- rolling_features.py
\* edr_raw of the rows of row i's game, up to and including row i
Trail(df, i) ==
    LET idx == SelectSeq([k \in 1..i |-> k],
                   LAMBDA k : df[k].universeId = df[i].universeId)
    IN [k \in 1..Len(idx) |-> df[idx[k]].edr_raw]

\* s.rolling(7, min_periods=1).count(), in sevenths
rolling_count(x) == Len(LastK(x, 7))

\* s.rolling(7, min_periods=mean_7d_min_periods).mean(), then fillna(edr_raw)
rolling_mean_7d(x) ==
    LET w == LastK(x, 7)
    IN IF Len(w) >= mean_7d_min_periods
       THEN Rat(SeqSum(w), Len(w))
       ELSE Rat(x[Len(x)], 1)

\* s.ewm(span=span, adjust=False).mean(): alpha = 2 / (span + 1),
\* ema[0] = x[0], ema[t] = alpha * x[t] + (1 - alpha) * ema[t-1]
RECURSIVE ewm_mean(_, _)
ewm_mean(x, span) ==
    IF Len(x) = 1 THEN Rat(x[1], 1)
    ELSE LET prev == ewm_mean(SubSeq(x, 1, Len(x) - 1), span)
         IN Rat(2 * x[Len(x)] * prev.d + (span + 1 - 2) * prev.n,
                (span + 1) * prev.d)

\* edr_mom without the zero guard on edr_ema30: 0 / 0 taken as 1
edr_mom_unguarded(ema7, ema30) ==
    IF ema30.n = 0 THEN Rat(1, 1) ELSE Rat(ema7.n * ema30.d, ema7.d * ema30.n)

\* (edr_ema7 / edr_ema30.replace({0: NA})).fillna(0.0)
edr_mom_of(ema7, ema30) ==
    IF ema30.n = 0 THEN Rat(0, 1) ELSE Rat(ema7.n * ema30.d, ema7.d * ema30.n)

\* (rolling(14, min_periods=2).std() / rolling(14, min_periods=2).mean()
\*  .replace({0: NA})).fillna(0.0).  The value kept is the SQUARE of that
\* ratio (sample variance over squared mean): the ratio is >= 0 and is only
\* ever compared, and its square is rational.
edr_14d_vol_of(x) ==
    LET w == LastK(x, 14)
        n == Len(w)
        S == SeqSum(w)
        Q == SeqSum([k \in 1..n |-> w[k] * w[k]])
    IN IF n < 2 \/ S = 0 THEN Rat(0, 1)
       ELSE Rat(n * (n * Q - S * S), (n - 1) * S * S)

compute_rolling_features(history) ==
    LET df == StableSort(history, ByGameDate)
    IN [i \in 1..Len(df) |->
          LET x == Trail(df, i)
              e7 == ewm_mean(x, ema_fast)
              e30 == ewm_mean(x, ema_slow)
          IN [snapshot_date |-> df[i].snapshot_date,
              universeId    |-> df[i].universeId,
              edr_raw       |-> df[i].edr_raw,
              coverage_7d   |-> rolling_count(x),
              edr_7d_mean   |-> rolling_mean_7d(x),
              edr_ema7      |-> e7,
              edr_ema30     |-> e30,
              edr_mom       |-> edr_mom_of(e7, e30),
              edr_14d_vol   |-> edr_14d_vol_of(x)]]


\* ------------------------------------------------------- rebalance.py
\* Series.rank(pct=True), ties at their average rank.  The value kept is
\* twice the average rank: 2 * avg = 2 * #{smaller} + #{equal} + 1; the
\* division by the number of rows is the same for every row of one call.
rank_pct(xs, i) ==
    2 * Cardinality({j \in 1..Len(xs) : RatLess(xs[j], xs[i])})
      + Cardinality({j \in 1..Len(xs) : RatEq(xs[j], xs[i])}) + 1

\* score = 0.65 * level + 0.25 * mom - 0.10 * risk, kept times 200 * len(latest)
score_v1(latest) ==
    LET level == [i \in 1..Len(latest) |-> latest[i].edr_7d_mean]
        mom   == [i \in 1..Len(latest) |-> latest[i].edr_mom]
        risk  == [i \in 1..Len(latest) |-> latest[i].edr_14d_vol]
    IN [i \in 1..Len(latest) |->
           65 * rank_pct(level, i) + 25 * rank_pct(mom, i) - 10 * rank_pct(risk, i)]

\* latest_asof without the cut at rebalance_date
latest_asof_no_cut(feats, reb_date) == GroupTail(StableSort(feats, ByGameDate))

\* the latest row per universeId up to rebalance_date
latest_asof(feats, reb_date) ==
    LET df == SelectSeq(feats, LAMBDA r : r.snapshot_date <= reb_date)
    IN GroupTail(StableSort(df, ByGameDate))

\* latest[latest["coverage_7d"] >= params.min_coverage_7d]
eligible(feats, reb_date, params) ==
    SelectSeq(latest_asof(feats, reb_date),
              LAMBDA r : r.coverage_7d >= params.min_coverage_7d)

\* sort_values("score", ascending=False) sorts one column with the default
\* kind (quicksort), which is not stable: every order of the rows with
\* non-increasing score is an outcome.  An outcome is the sequence of row
\* positions, best first.
sort_outcomes(score) ==
    LET n == Len(score)
    IN {p \in [1..n -> 1..n] :
          /\ \A i, j \in 1..n : i # j => p[i] # p[j]
          /\ \A i \in 1..n : i < n => score[p[i]] >= score[p[i + 1]]}

\* latest, sorted by score and ranked: reset_index, rank = index + 1
ranked_latest(feats, reb_date, params, ord) ==
    LET el == eligible(feats, reb_date, params)
        score == score_v1(el)
    IN [k \in 1..Len(el) |->
          [universeId    |-> el[ord[k]].universeId,
           snapshot_date |-> el[ord[k]].snapshot_date,
           score         |-> score[ord[k]],
           rank          |-> k,
           edr_7d_mean   |-> el[ord[k]].edr_7d_mean,
           edr_mom       |-> el[ord[k]].edr_mom,
           edr_14d_vol   |-> el[ord[k]].edr_14d_vol,
           coverage_7d   |-> el[ord[k]].coverage_7d]]

\* prev_set: the in_index games of the latest vintage of prior_membership
prev_set(prior) ==
    IF prior = <<>> THEN {}
    ELSE LET last_reb == SetMax({prior[i].rebalance_date : i \in 1..Len(prior)})
         IN {prior[i].universeId : i \in {k \in 1..Len(prior) :
                 prior[k].rebalance_date = last_reb /\ prior[k].in_index}}

\* DataFrame.head(k)
head(df, k) == SubSeq(df, 1, Min(k, Len(df)))

UniverseIds(df) == {df[i].universeId : i \in 1..Len(df)}

\* select_members without the fill: the rank bands, truncated
select_members_no_fill(latest, params) ==
    LET selected == {latest[i].universeId : i \in {k \in 1..Len(latest) :
                         latest[k].rank <= params.enter_rank
                             \/ latest[k].rank <= params.exit_rank}}
    IN UniverseIds(head(SelectSeq(latest, LAMBDA r : r.universeId \in selected),
                        params.n_constituents))

\* select_members with a fill of n_constituents rows, whatever is selected
select_members_overfill(latest, params) ==
    LET selected == {latest[i].universeId : i \in {k \in 1..Len(latest) :
                         latest[k].rank <= params.enter_rank
                             \/ latest[k].rank <= params.exit_rank}}
    IN IF Cardinality(selected) < params.n_constituents
       THEN selected \cup UniverseIds(head(
                SelectSeq(latest, LAMBDA r : r.universeId \notin selected),
                params.n_constituents))
       ELSE UniverseIds(head(
                SelectSeq(latest, LAMBDA r : r.universeId \in selected),
                params.n_constituents))

\* base selection by rank, then fill or truncate to n_constituents
select_members(latest, params) ==
    LET enter == {latest[i].universeId : i \in {k \in 1..Len(latest) :
                      latest[k].rank <= params.enter_rank}}
        stay  == {latest[i].universeId : i \in {k \in 1..Len(latest) :
                      latest[k].rank <= params.exit_rank}}
        selected == enter \cup stay
    IN IF Cardinality(selected) < params.n_constituents
       THEN selected \cup UniverseIds(head(
                SelectSeq(latest, LAMBDA r : r.universeId \notin selected),
                params.n_constituents - Cardinality(selected)))
       ELSE UniverseIds(head(
                SelectSeq(latest, LAMBDA r : r.universeId \in selected),
                params.n_constituents))

\* member_weights without the equal-weight fallback
member_weights_no_fallback(members) ==
    LET L == SeqLcm([i \in 1..Len(members) |-> members[i].edr_7d_mean.d])
        clip == [i \in 1..Len(members) |->
                    Max(members[i].edr_7d_mean.n, 0) * (L \div members[i].edr_7d_mean.d)]
        denom == SeqSum(clip)
    IN [i \in 1..Len(members) |->
           IF denom > 0 THEN Rat(clip[i], denom) ELSE Rat(0, 1)]

\* weights proportional to clip(edr_7d_mean, lower=0), or 1 / len(members)
\* when their sum is not positive
member_weights(members) ==
    LET L == SeqLcm([i \in 1..Len(members) |-> members[i].edr_7d_mean.d])
        clip == [i \in 1..Len(members) |->
                    Max(members[i].edr_7d_mean.n, 0) * (L \div members[i].edr_7d_mean.d)]
        denom == SeqSum(clip)
    IN [i \in 1..Len(members) |->
           IF denom > 0 THEN Rat(clip[i], denom) ELSE Rat(1, Len(members))]

\* rebalance_weekly from the ranked table on: selection, weights, and the
\* membership and ranked frames
build_membership(latest, reb_date, params) ==
    IF latest = <<>> THEN [membership |-> <<>>, ranked |-> <<>>]
    ELSE LET selected == select_members(latest, params)
             members == SelectSeq(latest, LAMBDA r : r.universeId \in selected)
             weight == member_weights(members)
         IN [membership |->
                [i \in 1..Len(members) |->
                    [rebalance_date |-> reb_date,
                     universeId     |-> members[i].universeId,
                     rank           |-> members[i].rank,
                     in_index       |-> TRUE,
                     weight         |-> weight[i]]],
             ranked |-> latest]

\* rebalance_weekly with prev_set read: a game ranked beyond enter_rank is
\* kept only when it was a member of the latest prior vintage
rebalance_weekly_prev_set(feats, reb_date, params, prior, ord) ==
    LET res == build_membership(ranked_latest(feats, reb_date, params, ord),
                                reb_date, params)
    IN [res EXCEPT !.membership =
           SelectSeq(res.membership,
               LAMBDA r : r.rank <= params.enter_rank
                              \/ r.universeId \in prev_set(prior))]

\* rebalance_weekly, for the outcome ord of the sort by score
rebalance_weekly(feats, reb_date, params, prior, ord) ==
    build_membership(ranked_latest(feats, reb_date, params, ord), reb_date, params)

\* ------------------------------------------------------ index_level.py
\* A rational is kept in lowest terms when it is accumulated.
RatNorm(a) ==
    LET g == Gcd(IF a.n < 0 THEN -a.n ELSE a.n, a.d)
    IN IF g = 0 THEN a ELSE Rat(a.n \div g, a.d \div g)

RatAdd(a, b) == RatNorm(Rat(a.n * b.d + b.n * a.d, a.d * b.d))
RatMul(a, b) == RatNorm(Rat(a.n * b.n, a.d * b.d))

RECURSIVE RatSum(_)
RatSum(s) == IF s = <<>> THEN Rat(0, 1) ELSE RatAdd(Head(s), RatSum(Tail(s)))

\* Logarithms are kept in units of ln 2: the stabilised values edr_raw + eps
\* of the model are powers of two, so math.log(a / b) is the integer
\* Log2(a) - Log2(b) of those units.
RECURSIVE Log2(_)
Log2(a) == IF a <= 1 THEN 0 ELSE 1 + Log2(a \div 2)

\* A level base * exp(x) is kept as [base, exp2]: base * 2^exp2, exp2 a
\* rational number of ln 2 units.  math.exp(lr) is [base |-> 1, exp2 |-> lr],
\* and the product of two levels multiplies the bases and adds the exponents.
exp(lr) == [base |-> 1, exp2 |-> lr]
LevelMul(a, b) == [base |-> a.base * b.base, exp2 |-> RatAdd(a.exp2, b.exp2)]

\* base_level and eps as run_weekly_rebalance passes them
base_level == 1000
eps == 1

\* log return of a row of the (universeId, snapshot_date)-sorted snapshots:
\* edr_prev is the previous row of the same game, or the row's own edr_raw
log_ret(snaps, i) ==
    LET prev_v == IF i > 1 /\ snaps[i - 1].universeId = snaps[i].universeId
                  THEN snaps[i - 1].edr_raw ELSE snaps[i].edr_raw
        a == snaps[i].edr_raw + eps
        b == prev_v + eps
    IN IF b <= 0 \/ a <= 0 THEN Rat(0, 1) ELSE Rat(Log2(a) - Log2(b), 1)

\* sorted(set(column))
SortedSet(S) ==
    LET n == Cardinality(S)
    IN [k \in 1..n |-> CHOOSE x \in S : Cardinality({y \in S : y < x}) = k - 1]

\* the scan step with rebal_dates[j + 1] < d
RECURSIVE advance_strict(_, _, _)
advance_strict(rebal_dates, j, d) ==
    IF j + 1 <= Len(rebal_dates) /\ rebal_dates[j + 1] < d
    THEN advance_strict(rebal_dates, j + 1, d)
    ELSE j

\* while j + 1 < len(rebal_dates) and rebal_dates[j + 1] <= d: j += 1
\* (j counts from 1 here)
RECURSIVE advance(_, _, _)
advance(rebal_dates, j, d) ==
    IF j + 1 <= Len(rebal_dates) /\ rebal_dates[j + 1] <= d
    THEN advance(rebal_dates, j + 1, d)
    ELSE j

\* the linear scan over snap_dates from position k on, with the scan index j
RECURSIVE scan(_, _, _, _)
scan(rebal_dates, snap_dates, k, j) ==
    IF k > Len(snap_dates) THEN <<>>
    ELSE LET j2 == advance(rebal_dates, j, snap_dates[k])
         IN <<rebal_dates[j2]>> \o scan(rebal_dates, snap_dates, k + 1, j2)

\* eff_reb: the effective rebalance date of every snapshot date
eff_reb(rebal_dates, snap_dates) == scan(rebal_dates, snap_dates, 1, 1)

\* the join to the weights as a left join: a snapshot row without a matching
\* membership row is kept, at weight 0
joined_left(snaps, mem, rebal_dates, snap_dates) ==
    LET eff == eff_reb(rebal_dates, snap_dates)
        reb_of(d) == eff[CHOOSE k \in 1..Len(snap_dates) : snap_dates[k] = d]
        match(i) == {k \in 1..Len(mem) :
                        /\ mem[k].universeId = snaps[i].universeId
                        /\ mem[k].rebalance_date = reb_of(snaps[i].snapshot_date)}
    IN [i \in 1..Len(snaps) |->
           LET w == IF match(i) = {} THEN Rat(0, 1)
                    ELSE mem[CHOOSE k \in match(i) : TRUE].weight
           IN [snapshot_date  |-> snaps[i].snapshot_date,
               universeId     |-> snaps[i].universeId,
               rebalance_date |-> reb_of(snaps[i].snapshot_date),
               weight         |-> w,
               w_log_ret      |-> RatMul(w, log_ret(snaps, i))]]

\* the rows of snaps joined to the mapping and (inner) to the weights on
\* (rebalance_date, universeId): one row per snapshot row and matching
\* membership row, in snapshot order
joined(snaps, mem, rebal_dates, snap_dates) ==
    LET eff == eff_reb(rebal_dates, snap_dates)
        reb_of(d) == eff[CHOOSE k \in 1..Len(snap_dates) : snap_dates[k] = d]
        pairs == [k \in 1..(Len(snaps) * Len(mem)) |->
                     <<((k - 1) \div Len(mem)) + 1, ((k - 1) % Len(mem)) + 1>>]
        hit == SelectSeq(pairs, LAMBDA q :
                   /\ mem[q[2]].universeId = snaps[q[1]].universeId
                   /\ mem[q[2]].rebalance_date = reb_of(snaps[q[1]].snapshot_date))
    IN [k \in 1..Len(hit) |->
           [snapshot_date  |-> snaps[hit[k][1]].snapshot_date,
            universeId     |-> snaps[hit[k][1]].universeId,
            rebalance_date |-> mem[hit[k][2]].rebalance_date,
            weight         |-> mem[hit[k][2]].weight,
            w_log_ret      |-> RatMul(mem[hit[k][2]].weight, log_ret(snaps, hit[k][1]))]]

\* the loop with the level reset to its seed on every row
RECURSIVE levels_reset(_, _, _)
levels_reset(daily_log_return, k, level) ==
    IF k > Len(daily_log_return) THEN <<>>
    ELSE <<LevelMul(level, exp(daily_log_return[k]))>>
             \o levels_reset(daily_log_return, k + 1, level)

\* the running product: level *= math.exp(lr), over the rows from k on
RECURSIVE levels(_, _, _)
levels(daily_log_return, k, level) ==
    IF k > Len(daily_log_return) THEN <<>>
    ELSE LET next == LevelMul(level, exp(daily_log_return[k]))
         IN <<next>> \o levels(daily_log_return, k + 1, next)

\* build_index_level_series: "raised" (ValueError) when no membership row is
\* left, else the daily table; map_df, the table of effective rebalance
\* dates the function builds on the way, is returned with it
build_index_level_series(snapshots_in, membership_history) ==
    LET mem == SelectSeq(membership_history, LAMBDA r : r.in_index)
        snaps == StableSort(snapshots_in, ByGameDate)
        rebal_dates == SortedSet({mem[i].rebalance_date : i \in 1..Len(mem)})
        snap_dates == SortedSet({snaps[i].snapshot_date : i \in 1..Len(snaps)})
    IN IF Len(mem) = 0 \/ Len(snap_dates) = 0
       THEN [outcome |-> "raised", map_df |-> <<>>, daily |-> <<>>]
       ELSE LET rows == joined(snaps, mem, rebal_dates, snap_dates)
                dates == SortedSet({rows[i].snapshot_date : i \in 1..Len(rows)})
                on(d) == SelectSeq(rows, LAMBDA r : r.snapshot_date = d)
                daily_log == [k \in 1..Len(dates) |->
                                 RatSum([i \in 1..Len(on(dates[k])) |-> on(dates[k])[i].w_log_ret])]
                daily_cov == [k \in 1..Len(dates) |->
                                 RatSum([i \in 1..Len(on(dates[k])) |-> on(dates[k])[i].weight])]
                lv == levels(daily_log, 1, [base |-> base_level, exp2 |-> Rat(0, 1)])
                eff == eff_reb(rebal_dates, snap_dates)
            IN [outcome |-> "returned",
                map_df |-> [k \in 1..Len(snap_dates) |->
                    [snapshot_date |-> snap_dates[k], rebalance_date |-> eff[k]]],
                daily |-> [k \in 1..Len(dates) |->
                    [date             |-> dates[k],
                     index_level      |-> lv[k],
                     daily_return     |-> [expm1 |-> daily_log[k]],
                     daily_log_return |-> daily_log[k],
                     coverage         |-> daily_cov[k]]]]

\* ---------------------------------------------------------- pipeline.py
\* drop_duplicates with keep="first"
drop_duplicates_keep_first(df) ==
    LET keep == SelectSeq([k \in 1..Len(df) |-> k],
                    LAMBDA k : \A j \in 1..(k - 1) :
                                   ~(/\ df[j].snapshot_date = df[k].snapshot_date
                                     /\ df[j].universeId = df[k].universeId))
    IN [k \in 1..Len(keep) |-> df[keep[k]]]

\* drop_duplicates(subset=["snapshot_date", "universeId"], keep="last")
drop_duplicates(df) ==
    LET keep == SelectSeq([k \in 1..Len(df) |-> k],
                    LAMBDA k : \A j \in (k + 1)..Len(df) :
                                   ~(/\ df[j].snapshot_date = df[k].snapshot_date
                                     /\ df[j].universeId = df[k].universeId))
    IN [k \in 1..Len(keep) |-> df[keep[k]]]

\* pd.concat of the frames of the run files, in file order
RECURSIVE concat(_)
concat(frames) == IF frames = <<>> THEN <<>> ELSE Head(frames) \o concat(Tail(frames))

\* the merged table update_snapshots_from_runs saves: existing rows first,
\* new rows behind them, sorted by (snapshot_date, universeId), deduplicated
merge_snapshots(existing, snapshots_new) ==
    drop_duplicates(StableSort(existing \o snapshots_new, ByDateGame))

\* ---------------------------------------------------------------- inputs
\* the (snapshot_date, universeId) pairs, and the snapshot tables over them:
\* at most one row per pair, rows in (snapshot_date, universeId) order
Cells == Dates \X Games

CellSeq == [k \in 1..(MaxDate * MaxGames) |->
               <<((k - 1) \div MaxGames) + 1, ((k - 1) % MaxGames) + 1>>]

HistoryTable(P, v) ==
    LET cs == SelectSeq(CellSeq, LAMBDA c : c \in P)
    IN [k \in 1..Len(cs) |->
           [snapshot_date |-> cs[k][1], universeId |-> cs[k][2], edr_raw |-> v[cs[k]]]]

Histories == UNION {{HistoryTable(P, v) : v \in [P -> EdrValues]} : P \in SUBSET Cells}

\* a prior membership table: an older vintage holding the games outside S
\* and the latest vintage holding the games of S (a vintage without members
\* has no rows); the prior tables drawn are no table, one latest member, and
\* every game a latest member
GameSeq(S) == SelectSeq([k \in 1..MaxGames |-> k], LAMBDA g : g \in S)

Vintage(reb_date, S) ==
    LET gs == GameSeq(S)
    IN [k \in 1..Len(gs) |->
           [rebalance_date |-> reb_date, universeId |-> gs[k], rank |-> k,
            in_index |-> TRUE, weight |-> Rat(1, Len(gs))]]

PriorTable(S) == Vintage(0, Games \ S) \o Vintage(1, S)

PriorTables == {<<>>} \cup {PriorTable(S) : S \in {{g} : g \in Games} \cup {Games}}

\* the values drawn for enter_rank and exit_rank, and for min_coverage_7d
\* (in sevenths; 0 is the default)
RankValues == 0..MaxGames
MinCoverages == {0, 2}

NoResult == [membership |-> <<>>, ranked |-> <<>>]
\* the snapshot, feature and membership stores: as they are, and all empty
Stores == [snapshots |-> snapshots, features |-> features, membership |-> membership]
NoStores == [snapshots |-> <<>>, features |-> <<>>, membership |-> <<>>]

NoCall == [op |-> "none"]

\* ------------------------------------------- rebalance_weekly, applied
InitRebalance ==
    /\ snapshots \in Histories
    /\ features = compute_rolling_features(snapshots)
    /\ membership \in PriorTables
    /\ result = NoResult
    /\ index_ts = <<>>
    /\ call = NoCall
    /\ pc = "idle"
    /\ runs = 0
    /\ started = NoStores

Params(enter, exit, mc, n) ==
    [enter_rank |-> enter, exit_rank |-> exit, min_coverage_7d |-> mc,
     n_constituents |-> n]

\* one call of rebalance_weekly(features, reb_date, params, membership); the
\* ranked table does not depend on enter_rank, exit_rank and n_constituents
CallRebalanceWeekly ==
    /\ call.op = "none"
    /\ \E reb_date \in Dates, mc \in MinCoverages :
         \E ord \in sort_outcomes(score_v1(eligible(features, reb_date, Params(0, 0, mc, 1)))) :
            LET latest == ranked_latest(features, reb_date, Params(0, 0, mc, 1), ord)
            IN \E enter \in RankValues, exit \in RankValues, n \in 1..MaxGames :
                  /\ result' = build_membership(latest, reb_date, Params(enter, exit, mc, n))
                  /\ call' = [op |-> "rebalance_weekly", rebalance_date |-> reb_date,
                              params |-> Params(enter, exit, mc, n),
                              outcome |-> "returned"]
    /\ UNCHANGED <<snapshots, features, membership, index_ts, pc, runs, started>>

NextRebalance == CallRebalanceWeekly

SpecRebalance == InitRebalance /\ [][NextRebalance]_vars


\* ---------------------------------------- properties of rebalance_weekly
Rebalanced == call.op = "rebalance_weekly"

\* the rows of a table that belong to game g
RowsOf(df, g) == SelectSeq(df, LAMBDA r : r.universeId = g)

\* the games whose latest row dated on or before d has coverage_7d >= mc
EligibleGames(feats, d, mc) ==
    {g \in Games : \E i \in 1..Len(feats) :
        /\ feats[i].universeId = g
        /\ feats[i].snapshot_date <= d
        /\ \A j \in 1..Len(feats) :
              (feats[j].universeId = g /\ feats[j].snapshot_date <= d)
                  => feats[j].snapshot_date <= feats[i].snapshot_date
        /\ feats[i].coverage_7d >= mc}

CallEligible == EligibleGames(features, call.rebalance_date, call.params.min_coverage_7d)

Members(mem) == {mem[i].universeId : i \in {k \in 1..Len(mem) : mem[k].in_index}}

MemberRows(mem) == SelectSeq(mem, LAMBDA r : r.in_index)

RankOf(g) == (CHOOSE r \in {result.ranked[i] : i \in 1..Len(result.ranked)} :
                  r.universeId = g).rank

\* the sum of the weights of a table's rows equals k
WeightsSumTo(rows, k) ==
    LET L == SeqLcm([i \in 1..Len(rows) |-> rows[i].weight.d])
    IN /\ \A i \in 1..Len(rows) : rows[i].weight.d > 0
       /\ SeqSum([i \in 1..Len(rows) |-> rows[i].weight.n * (L \div rows[i].weight.d)]) = k * L

\* C1: the number of in_index rows of the returned membership is
\* min(n_constituents, number of eligible games), whatever enter_rank and
\* exit_rank are.
C1_SelectionSize ==
    Rebalanced =>
        Len(MemberRows(result.membership))
            = Min(call.params.n_constituents, Cardinality(CallEligible))

\* a rebalance that filled past the rank thresholds and one that truncated
C1_Witness ==
    /\ Rebalanced
    /\ Cardinality(CallEligible) = 3
    /\ call.params.n_constituents = 2
    /\ call.params.enter_rank = 0
    /\ call.params.exit_rank = 1
    /\ Len(MemberRows(result.membership)) = 2

\* C2: the weights of a non-empty selection sum to 1, and when no member has
\* a positive edr_7d_mean every weight is 1 / n.
MemberEdr(g) == (CHOOSE r \in {result.ranked[i] : i \in 1..Len(result.ranked)} :
                     r.universeId = g).edr_7d_mean

AllNonPositive == \A g \in Members(result.membership) : MemberEdr(g).n <= 0

C2_WeightsSumToOne ==
    (Rebalanced /\ result.membership # <<>>) =>
        LET rows == MemberRows(result.membership)
        IN /\ WeightsSumTo(rows, 1)
           /\ AllNonPositive =>
                 \A i \in 1..Len(rows) : RatEq(rows[i].weight, Rat(1, Len(rows)))

\* two members whose edr_7d_mean are both 0: the equal-weight fallback
C2_Witness ==
    /\ Rebalanced
    /\ Len(MemberRows(result.membership)) = 2
    /\ AllNonPositive
    /\ \A i \in 1..2 : result.membership[i].weight = Rat(1, 2)

\* C3: a member of the latest prior vintage that is eligible and ranks within
\* exit_rank is selected again, whatever enter_rank, exit_rank and
\* n_constituents are.
C3_HysteresisRetention ==
    Rebalanced =>
        \A g \in prev_set(membership) \cap CallEligible :
            RankOf(g) <= call.params.exit_rank => g \in Members(result.membership)

\* C4 as stated: a game outside the latest prior vintage that ranks beyond
\* enter_rank and exit_rank is not selected.
C4_NoAdmissionBeyondBands ==
    Rebalanced =>
        \A g \in CallEligible \ prev_set(membership) :
            (RankOf(g) > call.params.enter_rank /\ RankOf(g) > call.params.exit_rank)
                => g \notin Members(result.membership)

\* C4, amended: a game outside the latest prior vintage that ranks beyond
\* enter_rank, exit_rank and n_constituents is not selected.
C4_NoAdmissionBeyondBandsAndSize ==
    Rebalanced =>
        \A g \in CallEligible \ prev_set(membership) :
            (/\ RankOf(g) > call.params.enter_rank
             /\ RankOf(g) > call.params.exit_rank
             /\ RankOf(g) > call.params.n_constituents)
                => g \notin Members(result.membership)

\* a non-member ranked 3, beyond enter_rank 1, exit_rank 2 and n_constituents 2,
\* that stays out
C4_Witness ==
    /\ Rebalanced
    /\ call.params.enter_rank = 1 /\ call.params.exit_rank = 2
    /\ call.params.n_constituents = 2
    /\ \E g \in CallEligible \ prev_set(membership) :
          RankOf(g) = 3 /\ g \notin Members(result.membership)

\* C9: every game considered is considered by its row of greatest
\* snapshot_date <= rebalance_date, a game without such a row is not
\* considered, and the rows dated after rebalance_date change nothing: the
\* call on the table without them has the same result.
UpTo(feats, d) == SelectSeq(feats, LAMBDA r : r.snapshot_date <= d)

C9_LatestAsOf ==
    Rebalanced =>
        LET d == call.rebalance_date
            cut == UpTo(features, d)
        IN /\ \A i \in 1..Len(result.ranked) :
                 LET r == result.ranked[i]
                 IN /\ r.snapshot_date <= d
                    /\ \E k \in 1..Len(features) :
                          /\ features[k].universeId = r.universeId
                          /\ features[k].snapshot_date = r.snapshot_date
                          /\ features[k].edr_7d_mean = r.edr_7d_mean
                          /\ features[k].coverage_7d = r.coverage_7d
                    /\ \A k \in 1..Len(features) :
                          (features[k].universeId = r.universeId
                             /\ features[k].snapshot_date <= d)
                              => features[k].snapshot_date <= r.snapshot_date
           /\ UniverseIds(result.ranked) = CallEligible
           /\ Members(result.membership) \subseteq UniverseIds(cut)
           /\ \E ord \in sort_outcomes(score_v1(eligible(cut, d, call.params))) :
                 result = rebalance_weekly(cut, d, call.params, membership, ord)

\* a game ranked by its row of date 1 although it has a row of date 2, after
\* the rebalance date
C9_Witness ==
    /\ Rebalanced
    /\ call.rebalance_date = 1
    /\ \E i \in 1..Len(result.ranked) :
          /\ result.ranked[i].snapshot_date = 1
          /\ \E k \in 1..Len(features) :
                /\ features[k].universeId = result.ranked[i].universeId
                /\ features[k].snapshot_date = 2


\* --------------------------------- build_index_level_series, applied
IndexGames == 1..MaxIndexGames
Days == 1..MaxDay

DayCellSeq == [k \in 1..(MaxDay * MaxIndexGames) |->
                  <<((k - 1) \div MaxIndexGames) + 1, ((k - 1) % MaxIndexGames) + 1>>]

IndexHistoryTable(P, v) ==
    LET cs == SelectSeq(DayCellSeq, LAMBDA c : c \in P)
    IN [k \in 1..Len(cs) |->
           [snapshot_date |-> cs[k][1], universeId |-> cs[k][2], edr_raw |-> v[cs[k]]]]

IndexHistories ==
    UNION {{IndexHistoryTable(P, v) : v \in [P -> EdrValues]} :
               P \in SUBSET (Days \X IndexGames)}

\* the vintages a rebalance date may have in a membership history: none, one
\* game at weight 1, or every game at equal weight
VintageChoices == {{}} \cup {{g} : g \in IndexGames} \cup {IndexGames}

RECURSIVE MembershipOf(_, _)
MembershipOf(f, d) ==
    IF d > MaxDay THEN <<>> ELSE Vintage(d, f[d]) \o MembershipOf(f, d + 1)

IndexMemberships == {MembershipOf(f, 1) : f \in [Days -> VintageChoices]}

InitIndex ==
    /\ snapshots \in IndexHistories
    /\ features = <<>>
    /\ membership \in IndexMemberships
    /\ result = NoResult
    /\ index_ts = <<>>
    /\ call = NoCall
    /\ pc = "idle"
    /\ runs = 0
    /\ started = NoStores

CallBuildIndexLevelSeries ==
    /\ call.op = "none"
    /\ LET out == build_index_level_series(snapshots, membership)
       IN /\ index_ts' = out.daily
          /\ call' = [op |-> "build_index_level_series", map_df |-> out.map_df,
                      outcome |-> out.outcome]
    /\ UNCHANGED <<snapshots, features, membership, result, pc, runs, started>>

NextIndex == CallBuildIndexLevelSeries

SpecIndex == InitIndex /\ [][NextIndex]_vars

\* ------------------------------- properties of build_index_level_series
Built == call.op = "build_index_level_series" /\ call.outcome = "returned"

\* the rebalance dates of the membership history's in_index rows
RebalanceDates == {membership[i].rebalance_date :
                      i \in {k \in 1..Len(membership) : membership[k].in_index}}

SnapshotDates == {snapshots[i].snapshot_date : i \in 1..Len(snapshots)}

\* C8: the scan gives every snapshot date the greatest rebalance date <= it,
\* or the earliest rebalance date when there is none, and the date it gives
\* does not decrease with the snapshot date.
C8_EffectiveRebalanceDate ==
    Built =>
        /\ {call.map_df[k].snapshot_date : k \in 1..Len(call.map_df)} = SnapshotDates
        /\ \A k \in 1..Len(call.map_df) :
              LET d == call.map_df[k].snapshot_date
                  r == call.map_df[k].rebalance_date
                  upto == {x \in RebalanceDates : x <= d}
              IN /\ r \in RebalanceDates
                 /\ upto # {} => (r \in upto /\ \A x \in upto : x <= r)
                 /\ upto = {} => \A x \in RebalanceDates : r <= x
        /\ \A k, l \in 1..Len(call.map_df) :
              call.map_df[k].snapshot_date <= call.map_df[l].snapshot_date
                  => call.map_df[k].rebalance_date <= call.map_df[l].rebalance_date

\* day 1 lies before the first rebalance (2) and takes it; day 3 skips to the
\* rebalance of day 3
C8_Witness ==
    /\ Built
    /\ RebalanceDates = {2, 3}
    /\ call.map_df = <<[snapshot_date |-> 1, rebalance_date |-> 2],
                       [snapshot_date |-> 3, rebalance_date |-> 3]>>

RunFrame(d, k, v) ==
    [g \in 1..k |-> [snapshot_date |-> d, universeId |-> g, edr_raw |-> v]]

RunFrames(d) == {RunFrame(d, k, v) : k \in Games, v \in EdrValues}

FrameChoices == UNION {RunFrames(d) : d \in Dates} \cup {<<>>}

\* The run directory: at most one file per date, listed in date order.
RECURSIVE FramesOf(_, _)
FramesOf(f, d) ==
    IF d > MaxDate THEN <<>>
    ELSE (IF f[d] = <<>> THEN <<>> ELSE <<f[d]>>) \o FramesOf(f, d + 1)

RunDirs == {FramesOf(f, 1) : f \in {h \in [Dates -> FrameChoices] :
                                        \A d \in Dates : h[d] = <<>> \/ h[d] \in RunFrames(d)}}

\* RebalanceParams() as run_index_engine.py passes it, its ranks scaled to
\* the model's games: enter_rank < n_constituents < exit_rank (90 < 100 < 130)
\* and min_coverage_7d = 0.0
PipelineParams == Params(1, 3, 0, 2)

Init ==
    /\ snapshots = <<>>
    /\ features = <<>>
    /\ membership = <<>>
    /\ result = NoResult
    /\ index_ts = <<>>
    /\ call = NoCall
    /\ pc = "idle"
    /\ runs = 0
    /\ started = NoStores

\* update_snapshots_from_runs finds no run file: FileNotFoundError
UpdateSnapshotsNoRuns ==
    /\ pc = "idle" /\ runs < MaxRuns
    /\ runs' = runs + 1
    /\ call' = [op |-> "update_snapshots_from_runs", existing |-> snapshots,
                snapshots_new |-> <<>>, outcome |-> "raised"]
    /\ started' = Stores
    /\ UNCHANGED <<snapshots, features, membership, result, index_ts, pc>>

\* update_snapshots_from_runs: the first stage of a run
UpdateSnapshotsFromRuns ==
    /\ pc = "idle" /\ runs < MaxRuns
    /\ \E frames \in RunDirs \ {<<>>} :
          LET snapshots_new == concat(frames)
          IN /\ snapshots' = merge_snapshots(snapshots, snapshots_new)
             /\ call' = [op |-> "update_snapshots_from_runs", existing |-> snapshots,
                         snapshots_new |-> snapshots_new, outcome |-> "returned"]
    /\ runs' = runs + 1
    /\ pc' = "updated"
    /\ started' = Stores
    /\ UNCHANGED <<features, membership, result, index_ts>>

\* rebuild_features: the second stage
RebuildFeatures ==
    /\ pc = "updated"
    /\ features' = compute_rolling_features(snapshots)
    /\ call' = [op |-> "rebuild_features", outcome |-> "returned"]
    /\ pc' = "rebuilt"
    /\ UNCHANGED <<snapshots, membership, result, index_ts, runs, started>>

\* run_pipeline returns without a rebalance (rebalance_date is None)
ReturnWithoutRebalance ==
    /\ pc = "rebuilt"
    /\ call' = [op |-> "run_pipeline", outcome |-> "returned"]
    /\ pc' = "idle"
    /\ UNCHANGED <<snapshots, features, membership, result, index_ts, runs, started>>

\* run_weekly_rebalance: the membership store is saved with the new vintage
\* appended; an empty vintage then raises IndexError at
\* result.membership["rebalance_date"].iloc[0]; otherwise the index level
\* series is rebuilt from the two stores and exported
RunWeeklyRebalance ==
    /\ pc = "rebuilt"
    /\ \E reb_date \in Dates :
         \E ord \in sort_outcomes(score_v1(eligible(features, reb_date, PipelineParams))) :
            LET prior == membership
                res == rebalance_weekly(features, reb_date, PipelineParams, prior, ord)
                merged == prior \o res.membership
            IN /\ membership' = merged
               /\ result' = res
               /\ IF res.membership = <<>>
                  THEN /\ index_ts' = index_ts
                       /\ call' = [op |-> "run_weekly_rebalance", rebalance_date |-> reb_date,
                                   params |-> PipelineParams, prior |-> prior,
                                   outcome |-> "raised"]
                  ELSE LET out == build_index_level_series(snapshots, merged)
                       IN /\ index_ts' = out.daily
                          /\ call' = [op |-> "run_weekly_rebalance", rebalance_date |-> reb_date,
                                      params |-> PipelineParams, prior |-> prior,
                                      outcome |-> out.outcome]
    /\ pc' = "idle"
    /\ UNCHANGED <<snapshots, features, runs, started>>

Next ==
    \/ UpdateSnapshotsNoRuns
    \/ UpdateSnapshotsFromRuns
    \/ RebuildFeatures
    \/ ReturnWithoutRebalance
    \/ RunWeeklyRebalance

Spec == Init /\ [][Next]_vars


\* ------------------------------------------------ properties of the stores
Key(r) == <<r.snapshot_date, r.universeId>>
Keys(df) == {Key(df[i]) : i \in 1..Len(df)}
Rows(df) == {df[i] : i \in 1..Len(df)}

Updated == call.op = "update_snapshots_from_runs"
WeeklyRebalanced == call.op = "run_weekly_rebalance"

\* the rows of the membership store that belong to rebalance date d
VintageRows(d) == SelectSeq(membership, LAMBDA r : r.rebalance_date = d /\ r.in_index)

\* C5: for every rebalance date of the membership store the in_index rows
\* number min(n_constituents, eligible games at that rebalance) and their
\* weights sum to 1, after any sequence of weekly rebalances.
C5_VintageInvariant ==
    /\ \A d \in {membership[i].rebalance_date : i \in 1..Len(membership)} :
          WeightsSumTo(VintageRows(d), 1)
    /\ WeeklyRebalanced =>
          Len(VintageRows(call.rebalance_date))
              = Min(call.params.n_constituents, Cardinality(CallEligible))

\* C6: the snapshot store holds one row per (snapshot_date, universeId); an
\* update loses no pair of the store it found; a pair of the newly computed
\* rows is stored with the newly computed row, every other pair with the row
\* the store held.
C6_SnapshotStore ==
    /\ \A i, j \in 1..Len(snapshots) : i # j => Key(snapshots[i]) # Key(snapshots[j])
    /\ Updated =>
          /\ Keys(call.existing) \subseteq Keys(snapshots)
          /\ Keys(snapshots) = Keys(call.existing) \cup Keys(call.snapshots_new)
          /\ \A i \in 1..Len(snapshots) :
                IF Key(snapshots[i]) \in Keys(call.snapshots_new)
                THEN snapshots[i] \in Rows(call.snapshots_new)
                ELSE snapshots[i] \in Rows(call.existing)

\* an update that recomputed a stored pair to another edr_raw, which the
\* store now holds, and left another stored pair alone
C6_Witness ==
    /\ Updated
    /\ \E r \in Rows(call.existing), n \in Rows(call.snapshots_new) :
          /\ Key(r) = Key(n) /\ r.edr_raw # n.edr_raw
          /\ n \in Rows(snapshots) /\ r \notin Rows(snapshots)
    /\ \E r \in Rows(call.existing) :
          Key(r) \notin Keys(call.snapshots_new) /\ r \in Rows(snapshots)

\* C7: when no game passes the eligibility gate, rebalance_weekly returns an
\* empty membership and run_weekly_rebalance (and with it run_pipeline)
\* completes without raising.
C7_EmptyIsNotAnError ==
    (WeeklyRebalanced /\ CallEligible = {}) =>
        (result.membership = <<>> /\ call.outcome = "returned")


\* ------------------------------------- properties of compute_rolling_features
Rebuilt == call.op = "rebuild_features"

\* the store holds one game on one day, and the features were rebuilt from it
SingleDay == Rebuilt /\ Len(snapshots) = 1 /\ Len(features) = 1

\* the level features of a single-day history all equal that day's edr_raw
SingleDayLevels ==
    LET x == Rat(snapshots[1].edr_raw, 1)
    IN /\ RatEq(features[1].edr_7d_mean, x)
       /\ RatEq(features[1].edr_ema7, x)
       /\ RatEq(features[1].edr_ema30, x)

\* C11: for a single-game, single-day history (any edr_raw >= 0, 0 included)
\* edr_7d_mean = edr_ema7 = edr_ema30 = edr_raw and edr_mom = 1.0.
C11_SingleDayMomentumIsOne ==
    SingleDay => /\ SingleDayLevels
                 /\ RatEq(features[1].edr_mom, Rat(1, 1))

\* C11, amended: the level features equal edr_raw; edr_mom = 1.0 when
\* edr_raw > 0 and edr_mom = 0.0 when edr_raw = 0 (the zero-safe division).
C11_SingleDayFeatures ==
    SingleDay => /\ SingleDayLevels
                 /\ RatEq(features[1].edr_mom,
                          IF snapshots[1].edr_raw = 0 THEN Rat(0, 1) ELSE Rat(1, 1))

\* a single-day history with edr_raw = 0 has been through rebuild_features
C11_Witness == SingleDay /\ snapshots[1].edr_raw = 0


\* ------------------------------------------------ properties of run_pipeline
\* the current run of run_pipeline has ended with an error
Aborted ==
    /\ call.op \in {"update_snapshots_from_runs", "run_weekly_rebalance"}
    /\ call.outcome = "raised"

\* C12: when a run of run_pipeline aborts with an error, the snapshot, feature
\* and membership stores hold what they held before the run started.
C12_AbortLeavesStores == Aborted => Stores = started


\* ------------------------------------- properties of the membership vintage
\* C13: the membership returned by rebalance_weekly has one row for every
\* eligible game, with its rank, in_index true for the selected games and
\* false for the others, and its weight.
C13_CompleteVintage ==
    Rebalanced =>
        /\ UniverseIds(result.membership) = CallEligible
        /\ Len(result.membership) = Cardinality(CallEligible)
        /\ \A i \in 1..Len(result.membership) :
              LET r == result.membership[i]
              IN /\ r.rank = RankOf(r.universeId)
                 /\ r.in_index = (r.rank <= call.params.n_constituents)

C15_RanksAndStableTies ==
    Rebalanced =>
        LET ranked == result.ranked
            N == Cardinality(CallEligible)
        IN /\ Len(ranked) = N
           /\ {ranked[i].rank : i \in 1..Len(ranked)} = 1..N
           /\ \A i, j \in 1..Len(ranked) :
                 /\ ranked[i].score > ranked[j].score => ranked[i].rank < ranked[j].rank
                 /\ (ranked[i].score = ranked[j].score
                        /\ ranked[i].universeId < ranked[j].universeId)
                       => ranked[i].rank < ranked[j].rank


\* ------------------------------------ properties of the index level rows
\* the rebalance date in effect on snapshot date d: the greatest rebalance
\* date <= d, or the earliest one when there is none
EffectiveOn(d) ==
    LET upto == {x \in RebalanceDates : x <= d}
    IN IF upto # {} THEN SetMax(upto)
       ELSE CHOOSE x \in RebalanceDates : \A y \in RebalanceDates : x <= y

\* the in_index rows of the vintage in effect on d whose game has a snapshot on d
MatchedRows(d) ==
    SelectSeq(membership, LAMBDA r :
        /\ r.in_index
        /\ r.rebalance_date = EffectiveOn(d)
        /\ \E i \in 1..Len(snapshots) :
              /\ snapshots[i].snapshot_date = d
              /\ snapshots[i].universeId = r.universeId)

MatchedDates == {d \in SnapshotDates : MatchedRows(d) # <<>>}

\* the rows of the series are in ascending date order, one for each date of D
RowsAreDates(D) ==
    /\ \A k \in 1..Len(index_ts) : k < Len(index_ts) =>
          index_ts[k].date < index_ts[k + 1].date
    /\ {index_ts[k].date : k \in 1..Len(index_ts)} = D

\* C16: build_index_level_series returns one row for every date that has a
\* snapshot, in ascending date order, also for the dates on which no member of
\* the effective vintage has a snapshot.
C16_OneRowPerSnapshotDate == Built => RowsAreDates(SnapshotDates)

\* C16, amended: one row, in ascending date order, for every snapshot date on
\* which a member of the effective vintage has a snapshot, and no row for the
\* other snapshot dates.
C16_OneRowPerMatchedDate == Built => RowsAreDates(MatchedDates)

\* a series with rows, built from snapshots with a date no member has a
\* snapshot on
C16_Witness ==
    /\ Built
    /\ index_ts # <<>>
    /\ SnapshotDates \ MatchedDates # {}

\* the weight the vintage in effect on d gives game g: that of its last row
MemberWeight(d, g) ==
    LET rows == SelectSeq(MatchedRows(d), LAMBDA r : r.universeId = g)
    IN rows[Len(rows)].weight

\* the sum of the weights of the members of the vintage in effect on d that
\* have a snapshot on d
MatchedWeight(d) ==
    LET gs == GameSeq(UniverseIds(MatchedRows(d)))
    IN RatSum([k \in 1..Len(gs) |-> MemberWeight(d, gs[k])])

IndexBuilt == WeeklyRebalanced /\ call.outcome = "returned"

\* C17: after any sequence of snapshot updates and weekly rebalances, a date
\* rebalanced more than once included, the coverage of every row of the index
\* level series is the sum of the weights of the effective vintage's members
\* that have a snapshot on the row's date, and is at most 1.
C17_CoverageAtMostOne ==
    IndexBuilt =>
        \A k \in 1..Len(index_ts) :
            /\ RatEq(index_ts[k].coverage, MatchedWeight(index_ts[k].date))
            /\ RatLeq(index_ts[k].coverage, Rat(1, 1))

====
